---- MODULE Spec2Model ----
(***************************************************************************)
(* Model of the Linux pose_detection plugin                                *)
(* (src/linux/pose_detection_plugin.cc): registration of the plugin object *)
(* on the "pose_detection" method channel, and the method-call handler     *)
(* that answers getPlatformVersion from uname(2).                          *)
(*                                                                         *)
(* C strings are sequences of byte values (the terminating NUL is the end  *)
(* of the sequence), so that strcmp, the "Linux %s" format and whitespace  *)
(* splitting are computed and not assumed.                                 *)
(***************************************************************************)
EXTENDS Integers, Sequences, FiniteSets, TLC

VARIABLES host, epoch, pcReg, ref_count, finalized, handler, freedDispatch,
          log, slots

vars == <<host, epoch, pcReg, ref_count, finalized, handler, freedDispatch,
          log, slots>>

(* ------------------------------ bounds --------------------------------- *)
MaxCalls == 2
MaxHostChanges == 1
MaxInFlight == 2

(* ------------------------------ strings -------------------------------- *)
\* "getPlatformVersion", the literal compared against the method name
GetPlatformVersionName ==
    <<103,101,116,80,108,97,116,102,111,114,109,86,101,114,115,105,111,110>>

\* "Linux ", the literal part of the format "Linux %s"
LinuxPrefix == <<76,105,110,117,120,32>>

\* "Linux", the sysname a Linux kernel reports
SysnameLinux == <<76,105,110,117,120>>

\* Method names the host may deliver: the exact name, the empty name, the
\* upper-case name, and the name as a proper prefix and as a proper suffix of
\* a longer name.
MethodNames ==
    { GetPlatformVersionName,
      << >>,
      <<71,69,84,80,76,65,84,70,79,82,77,86,69,82,83,73,79,78>>,
      GetPlatformVersionName \o <<88>>,
      <<88>> \o GetPlatformVersionName }

\* Arguments of a method call: none, the null value, or some value.
ArgValues == {"absent", "null", "value"}

\* utsname.version texts ("#1 SMP", "#2") and utsname.release ("5.15")
VersionTexts == { <<35,49,32,83,77,80>>, <<35,50>> }
ReleaseTexts == { <<53,46,49,53>> }

\* What the kernel would report to uname(2), and whether the call succeeds.
HostStates ==
    [ok : BOOLEAN, sysname : {SysnameLinux},
     release : ReleaseTexts, version : VersionTexts]

(* --------------------------- pure functions ---------------------------- *)
\* byte i of a C string, 0 (NUL) past its end
CharAt(s, i) == IF i <= Len(s) THEN s[i] ELSE 0

RECURSIVE strcmpFrom(_, _, _)
strcmpFrom(a, b, i) ==
    IF CharAt(a, i) # CharAt(b, i) THEN CharAt(a, i) - CharAt(b, i)
    ELSE IF CharAt(a, i) = 0 THEN 0
    ELSE strcmpFrom(a, b, i + 1)

\* strncmp(a, b, strlen(b)): equal as soon as b is a prefix of a
strcmp_prefix(a, b) ==
    strcmpFrom(SubSeq(a, 1, IF Len(a) < Len(b) THEN Len(a) ELSE Len(b)), b, 1)

strcmp(a, b) == strcmpFrom(a, b, 1)

\* struct utsname uname_data = {};
utsname_zero == [sysname |-> << >>, release |-> << >>, version |-> << >>]

\* uname(&uname_data): fills the buffer and returns 0, or returns -1 and
\* leaves the buffer as it was
uname(h, buf) ==
    IF h.ok
    THEN [ret |-> 0,
          data |-> [sysname |-> h.sysname, release |-> h.release,
                    version |-> h.version]]
    ELSE [ret |-> -1, data |-> buf]

\* g_strdup_printf("Linux%s", ...): the format without its blank
format_noblank(s) == SubSeq(LinuxPrefix, 1, 5) \o s

\* g_strdup_printf("%s", ...): the format without its literal part
format_bare(s) == s

\* g_strdup_printf("Linux %s", s)
g_strdup_printf_Linux(s) == LinuxPrefix \o s

fl_method_success_response_new(v) == [kind |-> "Success", value |-> v]

fl_method_not_implemented_response_new ==
    [kind |-> "NotImplemented", value |-> << >>]

\* the field of the buffer that get_platform_version formats, were it release
version_field_release(data) == data.release

\* the field of the buffer that get_platform_version formats
version_field(data) == data.version

\* get_platform_version(), given the host it runs on
get_platform_version(h) ==
    LET u == uname(h, utsname_zero)
        version == g_strdup_printf_Linux(version_field(u.data))
    IN  fl_method_success_response_new(version)

\* a handler that rejects calls carrying an argument value
handle_checks_args(method, args, h) ==
    IF strcmp(method, GetPlatformVersionName) = 0 /\ args # "value"
    THEN get_platform_version(h)
    ELSE fl_method_not_implemented_response_new

\* the response pose_detection_plugin_handle_method_call passes to
\* fl_method_call_respond
handle_method_call_response(method, args, h) ==
    IF strcmp(method, GetPlatformVersionName) = 0
    THEN get_platform_version(h)
    ELSE fl_method_not_implemented_response_new

\* whitespace as isspace() has it
IsSpace(c) == c \in {32, 9, 10, 11, 12, 13}

RECURSIVE SkipSpaces(_)
SkipSpaces(s) ==
    IF s = << >> THEN << >>
    ELSE IF IsSpace(Head(s)) THEN SkipSpaces(Tail(s)) ELSE s

RECURSIVE TakeToken(_)
TakeToken(s) ==
    IF s = << >> THEN << >>
    ELSE IF IsSpace(Head(s)) THEN << >>
    ELSE <<Head(s)>> \o TakeToken(Tail(s))

\* first token of s when split on whitespace
FirstToken(s) == TakeToken(SkipSpaces(s))


(* ------------------------- reference counting -------------------------- *)
g_object_ref(rc) == rc + 1

g_object_unref(rc) == rc - 1

\* the plugin pointer handed over as user_data without taking a reference
user_data_borrowed(rc) == rc

\* the user_data argument of fl_method_channel_set_method_call_handler:
\* g_object_ref(plugin)
handler_user_data(rc) == g_object_ref(rc)

\* number of finalizations after the count moved from rc to rc2
Finalize(rc, rc2, fin) == IF rc > 0 /\ rc2 <= 0 THEN fin + 1 ELSE fin

(* ------------------------------- state --------------------------------- *)
IdleSlot ==
    [pc |-> "idle", name |-> << >>, args |-> "absent",
     uname_data |-> utsname_zero, seen |-> "none",
     response |-> "nullptr", answers |-> << >>]

TypeOK ==
    /\ host \in HostStates
    /\ epoch \in 0..MaxHostChanges
    /\ pcReg \in {"start", "created", "handler_set", "returned"}
    /\ ref_count \in Int
    /\ finalized \in Nat
    /\ handler \in {"none", "installed", "destroyed"}
    /\ freedDispatch \in BOOLEAN
    /\ Len(log) <= MaxCalls
    /\ DOMAIN slots = 1..MaxInFlight

\* Before pose_detection_plugin_register_with_registrar runs: no plugin
\* object, no handler, no call answered.
Init ==
    /\ host \in HostStates
    /\ epoch = 0
    /\ pcReg = "start"
    /\ ref_count = 0
    /\ finalized = 0
    /\ handler = "none"
    /\ freedDispatch = FALSE
    /\ log = << >>
    /\ slots = [i \in 1..MaxInFlight |-> IdleSlot]

(* ---------------------------- registration ----------------------------- *)
\* g_object_new(pose_detection_plugin_get_type(), nullptr)
RegNew ==
    /\ pcReg = "start"
    /\ pcReg' = "created"
    /\ ref_count' = 1
    /\ UNCHANGED <<host, epoch, finalized, handler, freedDispatch, log, slots>>

\* fl_method_channel_new(...) and
\* fl_method_channel_set_method_call_handler(channel, method_call_cb,
\*                                           g_object_ref(plugin),
\*                                           g_object_unref)
RegSetHandler ==
    /\ pcReg = "created"
    /\ pcReg' = "handler_set"
    /\ ref_count' = handler_user_data(ref_count)
    /\ handler' = "installed"
    /\ UNCHANGED <<host, epoch, finalized, freedDispatch, log, slots>>

\* g_object_unref(plugin); the function returns
RegUnref ==
    /\ pcReg = "handler_set"
    /\ pcReg' = "returned"
    /\ ref_count' = g_object_unref(ref_count)
    /\ finalized' = Finalize(ref_count, ref_count', finalized)
    /\ UNCHANGED <<host, epoch, handler, freedDispatch, log, slots>>

\* The channel drops the handler: its destroy-notify, g_object_unref, runs
\* once on the user_data.
DestroyNotify ==
    /\ pcReg = "returned"
    /\ handler = "installed"
    /\ handler' = "destroyed"
    /\ ref_count' = g_object_unref(ref_count)
    /\ finalized' = Finalize(ref_count, ref_count', finalized)
    /\ UNCHANGED <<host, epoch, pcReg, freedDispatch, log, slots>>

(* ------------------------------ the host ------------------------------- *)
\* The data uname(2) would report changes (or the call starts or stops
\* failing).
HostChange ==
    /\ epoch < MaxHostChanges
    /\ host' \in HostStates \ {host}
    /\ epoch' = epoch + 1
    /\ UNCHANGED <<pcReg, ref_count, finalized, handler, freedDispatch, log,
                   slots>>

(* ----------------------- the handler, run to its end -------------------- *)
\* the answers given so far to calls named "getPlatformVersion"
EarlierTexts ==
    LET idx == {k \in 1..Len(log) : log[k].name = GetPlatformVersionName}
    IN  IF idx = {} THEN << >>
        ELSE log[CHOOSE k \in idx : \A m \in idx : m <= k].answers[1].value

\* a handler that builds the version text with strcat in a static buffer it
\* never clears: each answer is appended to the previous one
MethodCallCbStatic ==
    /\ pcReg = "returned"
    /\ handler = "installed"
    /\ Len(log) < MaxCalls
    /\ \E name \in MethodNames, args \in ArgValues :
          LET r == handle_method_call_response(name, args, host)
          IN  log' = Append(log,
                   [name |-> name, args |-> args, host |-> host,
                    epoch |-> epoch,
                    answers |-> << IF r.kind = "Success"
                                   THEN [r EXCEPT !.value = EarlierTexts \o @]
                                   ELSE r >>])
    /\ freedDispatch' = (freedDispatch \/ ref_count <= 0)
    /\ UNCHANGED <<host, epoch, pcReg, ref_count, finalized, handler, slots>>

\* method_call_cb -> pose_detection_plugin_handle_method_call, on the main
\* loop: the whole handler runs before anything else does.
MethodCallCb ==
    /\ pcReg = "returned"
    /\ handler = "installed"
    /\ Len(log) < MaxCalls
    /\ \E name \in MethodNames, args \in ArgValues :
          log' = Append(log,
                   [name |-> name, args |-> args, host |-> host,
                    epoch |-> epoch,
                    answers |-> <<handle_method_call_response(name, args,
                                                              host)>>])
    /\ freedDispatch' = (freedDispatch \/ ref_count <= 0)
    /\ UNCHANGED <<host, epoch, pcReg, ref_count, finalized, handler, slots>>

Next ==
    \/ RegNew
    \/ RegSetHandler
    \/ RegUnref
    \/ DestroyNotify
    \/ HostChange
    \/ MethodCallCb

Spec == Init /\ [][Next]_vars


(* ------------- the handler step by step, several calls in flight -------- *)
\* The main loop has run registration: the handler is installed and holds
\* the plugin; no call is in flight.
InitConc ==
    /\ host \in HostStates
    /\ epoch = 0
    /\ pcReg = "returned"
    /\ ref_count = 1
    /\ finalized = 0
    /\ handler = "installed"
    /\ freedDispatch = FALSE
    /\ log = << >>
    /\ slots = [i \in 1..MaxInFlight |-> IdleSlot]

\* the calls in flight: the exact name, the empty name and a name the exact
\* one is a proper prefix of; with the null value or some value as argument
InFlightNames ==
    { GetPlatformVersionName, << >>, GetPlatformVersionName \o <<88>> }

InFlightArgs == {"null", "value"}

Others == <<epoch, pcReg, ref_count, finalized, handler, freedDispatch, log>>

\* method_call_cb is entered with a call; response = nullptr;
\* method = fl_method_call_get_name(method_call)
Enter(i) ==
    /\ handler = "installed"
    /\ slots[i].pc = "idle"
    /\ \E name \in InFlightNames, args \in InFlightArgs :
          slots' = [slots EXCEPT ![i] =
                      [IdleSlot EXCEPT !.pc = "compare", !.name = name,
                                       !.args = args]]
    /\ UNCHANGED <<host, Others>>

\* a handler that returns without responding when the name is unknown
CompareSilent(i) ==
    /\ slots[i].pc = "compare"
    /\ slots' = [slots EXCEPT ![i].pc =
                    IF strcmp(slots[i].name, GetPlatformVersionName) = 0
                    THEN "uname" ELSE "returned"]
    /\ UNCHANGED <<host, Others>>

\* if (strcmp(method, "getPlatformVersion") == 0) ... else
\*   response = fl_method_not_implemented_response_new()
Compare(i) ==
    /\ slots[i].pc = "compare"
    /\ slots' = [slots EXCEPT ![i] =
                    IF strcmp(slots[i].name, GetPlatformVersionName) = 0
                    THEN [@ EXCEPT !.pc = "uname"]
                    ELSE [@ EXCEPT !.pc = "respond",
                            !.response =
                               fl_method_not_implemented_response_new]]
    /\ UNCHANGED <<host, Others>>

\* struct utsname uname_data = {}; uname(&uname_data);
Uname(i) ==
    /\ slots[i].pc = "uname"
    /\ slots' = [slots EXCEPT ![i] =
                    [@ EXCEPT !.pc = "format",
                              !.uname_data = uname(host, utsname_zero).data,
                              !.seen = host]]
    /\ UNCHANGED <<host, Others>>

\* the version text built in one static buffer that every call shares: the
\* text wrapped is that of whichever call filled the buffer last
FormatShared(i) ==
    /\ slots[i].pc = "format"
    /\ \E j \in 1..MaxInFlight :
          /\ j = i \/ slots[j].pc \in {"format", "respond"}
          /\ slots' = [slots EXCEPT ![i] =
                         [@ EXCEPT !.pc = "respond",
                                   !.response =
                                      fl_method_success_response_new(
                                         g_strdup_printf_Linux(version_field(
                                            slots[j].uname_data)))]]
    /\ UNCHANGED <<host, Others>>

\* version = g_strdup_printf("Linux %s", uname_data.version);
\* result = fl_value_new_string(version);
\* return fl_method_success_response_new(result)
Format(i) ==
    /\ slots[i].pc = "format"
    /\ slots' = [slots EXCEPT ![i] =
                    [@ EXCEPT !.pc = "respond",
                              !.response =
                                 fl_method_success_response_new(
                                    g_strdup_printf_Linux(version_field(
                                       slots[i].uname_data)))]]
    /\ UNCHANGED <<host, Others>>

\* fl_method_call_respond(method_call, response, nullptr); the handler
\* returns
Respond(i) ==
    /\ slots[i].pc = "respond"
    /\ slots' = [slots EXCEPT ![i] =
                    [@ EXCEPT !.pc = "returned",
                              !.answers = Append(@, slots[i].response)]]
    /\ UNCHANGED <<host, Others>>

\* the FlMethodCall is released by its owner after the handler returned
Release(i) ==
    /\ slots[i].pc = "returned"
    /\ slots' = [slots EXCEPT ![i] = IdleSlot]
    /\ UNCHANGED <<host, Others>>

\* the data uname(2) would report changes while calls are in flight
HostChangeConc ==
    /\ host' \in HostStates \ {host}
    /\ UNCHANGED <<Others, slots>>

NextConc ==
    \/ \E i \in 1..MaxInFlight : Enter(i)
    \/ \E i \in 1..MaxInFlight : Compare(i)
    \/ \E i \in 1..MaxInFlight : Uname(i)
    \/ \E i \in 1..MaxInFlight : Format(i)
    \/ \E i \in 1..MaxInFlight : Respond(i)
    \/ \E i \in 1..MaxInFlight : Release(i)
    \/ HostChangeConc

SpecConc == InitConc /\ [][NextConc]_vars


(* ============================== claims ================================= *)
\* the answered calls whose name is exactly "getPlatformVersion"
IsExact(e) == e.name = GetPlatformVersionName

Answer(e) == e.answers[1]

\* C1: every call named exactly "getPlatformVersion", whatever its arguments
\* and whatever calls preceded it, is answered Success with a non-empty
\* string payload.
C1_SuccessNonEmpty ==
    \A k \in 1..Len(log) :
        IsExact(log[k]) =>
            /\ Answer(log[k]).kind = "Success"
            /\ Len(Answer(log[k]).value) > 0

\* C1 witness: a second call named getPlatformVersion, carrying an argument
\* value, answered while uname fails
C1_Witness ==
    /\ Len(log) >= 2
    /\ IsExact(log[2])
    /\ log[2].args = "value"
    /\ ~log[2].host.ok
    /\ Answer(log[2]).kind = "Success"

\* C2: every call whose name differs from "getPlatformVersion" in any byte
\* (the empty name, another letter case, a longer name that starts or ends
\* with it) is answered NotImplemented, never Success.
C2_OthersNotImplemented ==
    \A k \in 1..Len(log) :
        ~IsExact(log[k]) =>
            /\ Answer(log[k]).kind = "NotImplemented"
            /\ Answer(log[k]).kind # "Success"

\* C2 witness: the log holds an answered call named "getPlatformVersionX" and
\* one named "GETPLATFORMVERSION"
C2_Witness ==
    /\ \E k \in 1..Len(log) :
          /\ log[k].name = GetPlatformVersionName \o <<88>>
          /\ Answer(log[k]).kind = "NotImplemented"
    /\ \E k \in 1..Len(log) :
          /\ Len(log[k].name) = 18
          /\ log[k].name[1] = 71
          /\ Answer(log[k]).kind = "NotImplemented"


C4_FailureSurfaced ==
    \A k \in 1..Len(log) :
        (IsExact(log[k]) /\ ~log[k].host.ok) =>
            Answer(log[k]).kind \notin {"Success", "NotImplemented"}

C6_FirstTokenIsOsName ==
    \A k \in 1..Len(log) :
        (IsExact(log[k]) /\ Answer(log[k]).kind = "Success") =>
            FirstToken(Answer(log[k]).value) = log[k].host.sysname

\* C6 witness: one answer built from an empty version text and one from a
\* version text that contains a blank
C6_Witness ==
    /\ \E k \in 1..Len(log) :
          IsExact(log[k]) /\ Answer(log[k]).value = LinuxPrefix
    /\ \E k \in 1..Len(log) :
          /\ IsExact(log[k])
          /\ log[k].host.ok
          /\ \E n \in 1..Len(log[k].host.version) :
                IsSpace(log[k].host.version[n])

\* C7: two calls with the same method name under the same host get the same
\* response kind and payload, whatever their arguments.
C7_ArgumentsIgnored ==
    \A j \in 1..Len(log), k \in 1..Len(log) :
        (log[j].name = log[k].name /\ log[j].epoch = log[k].epoch) =>
            Answer(log[j]) = Answer(log[k])

\* C7 witness: getPlatformVersion called without arguments and with an
\* argument value under the same host, both answered Success
C7_Witness ==
    \E j \in 1..Len(log), k \in 1..Len(log) :
        /\ IsExact(log[j]) /\ IsExact(log[k])
        /\ log[j].args = "absent" /\ log[k].args = "value"
        /\ log[j].epoch = log[k].epoch
        /\ Answer(log[j]).kind = "Success"

\* C10: once registration has returned the plugin holds exactly one
\* reference, the handler's; while the handler is installed the plugin is
\* alive and no call was dispatched to a freed plugin; the count never goes
\* below 0, and the plugin is finalized exactly once, when the handler's
\* destroy-notify has run.
C10_RefCountBalanced ==
    /\ (pcReg = "returned" /\ handler = "installed") => ref_count = 1
    /\ handler = "installed" => ref_count >= 1
    /\ ~freedDispatch
    /\ ref_count >= 0
    /\ handler = "destroyed" => (ref_count = 0 /\ finalized = 1)
    /\ handler # "destroyed" => finalized = 0

\* C10 witness: calls were dispatched and the destroy-notify then released
\* the plugin
C10_Witness ==
    /\ handler = "destroyed"
    /\ Len(log) >= 1
    /\ finalized = 1

(* ------------------- claims about calls in flight ---------------------- *)
StepSlots == 1..MaxInFlight

\* C8: under any interleaving of the calls in flight, each call is answered
\* as the handler run alone would answer it on the host its uname saw.
C8_AnsweredAsAlone ==
    \A i \in StepSlots :
        slots[i].answers # << >> =>
            slots[i].answers[1] =
                handle_method_call_response(slots[i].name, slots[i].args,
                                            slots[i].seen)

\* C8 witness: one getPlatformVersion call has been answered while another,
\* whose uname saw a different host, is still in flight
C8_Witness ==
    \E i \in StepSlots, j \in StepSlots :
        /\ i # j
        /\ slots[i].pc = "returned"
        /\ slots[i].name = GetPlatformVersionName
        /\ slots[j].pc \in {"format", "respond"}
        /\ slots[j].name = GetPlatformVersionName
        /\ slots[i].seen # slots[j].seen

\* C9: a call is not answered before the handler responds, is answered
\* exactly once when the handler has returned, never twice, and the answer
\* is Success carrying a non-empty string or NotImplemented.
C9_AnsweredExactlyOnce ==
    \A i \in StepSlots :
        /\ Len(slots[i].answers) <= 1
        /\ slots[i].pc = "returned" => Len(slots[i].answers) = 1
        /\ slots[i].pc # "returned" => Len(slots[i].answers) = 0
        /\ \A n \in 1..Len(slots[i].answers) :
              \/ /\ slots[i].answers[n].kind = "Success"
                 /\ Len(slots[i].answers[n].value) > 0
              \/ slots[i].answers[n].kind = "NotImplemented"

\* C9 witness: a call of an unknown name and a getPlatformVersion call have
\* both returned
C9_Witness ==
    \E i \in StepSlots, j \in StepSlots :
        /\ slots[i].pc = "returned" /\ slots[j].pc = "returned"
        /\ slots[i].name = GetPlatformVersionName
        /\ slots[j].name # GetPlatformVersionName

====
